---- MODULE Spec2Model ----
(***************************************************************************)
(* Model of pipebird's transfer processing engine (processTransfer,       *)
(* finalizeTransfer) and of the destination delete endpoint.               *)
(*                                                                         *)
(* Every `await` of the source is one atomic step of an invocation; the    *)
(* steps of different invocations interleave freely.  Every collaborator   *)
(* call (catalog store, source, object store, warehouse loader) either     *)
(* returns or throws.                                                      *)
(***************************************************************************)
EXTENDS Integers, FiniteSets, Sequences, TLC

\* ---------------------------------------------------------------- bounds
NumProcs == 2      \* processTransfer invocations (sequential or concurrent)
NumTransfers == 2  \* transfer ids; all transfers belong to the one share
MaxTime == 2       \* last-modified values are 0..MaxTime
NumDeletes == 2    \* delete requests for the destination

Procs == 1..NumProcs
TransferIds == 1..NumTransfers
MissingId == 0     \* an id that names no transfer, ever
Ids == TransferIds \cup {MissingId}
Times == 0..MaxTime
RowTimes == 1..MaxTime
DeleteReqs == 1..NumDeletes
NumWebhooks == 1
MaxPosts == 3
Hooks == 1..NumWebhooks

\* a variant that forgets the transfers not picked up yet
pendingOnly == {"PENDING"}

\* ---------------------------------------------------------------- values
NONE == "NONE"     \* no Transfer row with this id
TransferStatus == {"STARTED", "PENDING", "COMPLETE", "FAILED", "CANCELLED"}
pendingTransferTypes == {"STARTED", "PENDING"}
TerminalStatus == TransferStatus \ pendingTransferTypes
DestinationTypes == {"PROVISIONED_S3", "SNOWFLAKE", "REDSHIFT"}
WarehouseTypes == {"SNOWFLAKE", "REDSHIFT"}

NoResult == [exists |-> FALSE, finalizedAt |-> FALSE, objectUrl |-> <<>>]
Undefined == <<>>  \* objectUrl omitted / null

VARIABLES
  transferStatus,      \* Transfer.status per id, NONE when the row is absent
  transferResult,      \* TransferResult row per transfer id
  shareLastModifiedAt, \* Share.lastModifiedAt, the watermark
  destinationExists,   \* the Destination row (and, by the foreign keys, its Share)
  destinationType,     \* Destination.destinationType
  credentialsExist,    \* host, port, username, password, database, schema all truthy
  sourceRows,          \* last-modified values of the tenant's rows in the source
  logs,                \* audit log entries written by the delete endpoint
  proc,                \* per processTransfer invocation: position, locals, history
  del,                 \* per delete request: position and response
  hook                 \* per processWebhook invocation: position, locals, history

vars == <<transferStatus, transferResult, shareLastModifiedAt, destinationExists,
          destinationType, credentialsExist, sourceRows, logs, proc, del, hook>>

dbVars == <<transferStatus, transferResult, shareLastModifiedAt, destinationExists>>
cfgVars == <<destinationType, credentialsExist>>

\* ---------------------------------------------------------------- helpers
RECURSIVE SetMax(_)
SetMax(S) == IF S = {} THEN 0
             ELSE LET x == CHOOSE y \in S : TRUE
                      m == SetMax(S \ {x})
                  IN IF x > m THEN x ELSE m

\* getPresignedURL({ key, extension }): the signed URL of the uploaded key
getPresignedURL(key) == <<"signed", key>>

\* uploadObject: every upload gets a key of its own
uploadObject(p) == <<"key", p>>

\* the snapshot findUnique returns (transfer with its share)
NoTransfer == [found |-> FALSE, status |-> NONE, lastModifiedAt |-> 0]

NoBody == [status |-> NONE, result |-> NoResult]
InitHook == [pc |-> "idle", id |-> MissingId, body |-> NoBody, posts |-> 0,
             delivered |-> FALSE, logged |-> 0, outcome |-> "none"]

InitProc == [pc |-> "idle", id |-> MissingId, transfer |-> NoTransfer,
             newLastModifiedAt |-> 0, stream |-> {}, noNewRows |-> FALSE,
             loader |-> FALSE, key |-> Undefined, objectUrl |-> Undefined,
             claimed |-> FALSE, sourceContacted |-> FALSE, zeroRows |-> FALSE,
             caught |-> FALSE, rollbackCalls |-> 0,
             destinationContacted |-> FALSE, wroteShare |-> FALSE,
             wroteResult |-> FALSE, outcome |-> "none", endStatus |-> NONE,
             loaderCalls |-> <<>>, loaderReturned |-> 0, rejectedAt |-> "none",
             credentialsMissing |-> FALSE, startedAlone |-> FALSE]

Init ==
  /\ transferStatus = [t \in Ids |-> NONE]
  /\ transferResult = [t \in Ids |-> NoResult]
  /\ shareLastModifiedAt \in Times
  /\ destinationExists = TRUE
  /\ destinationType \in DestinationTypes
  /\ credentialsExist \in BOOLEAN
  /\ (destinationType = "PROVISIONED_S3" => credentialsExist = FALSE)
  /\ sourceRows = {}
  /\ logs = [pending |-> 0, deleted |-> 0]
  /\ proc = [p \in Procs |-> InitProc]
  /\ del = [d \in DeleteReqs |-> [pc |-> "idle", response |-> 0]]
  /\ hook = [w \in Hooks |-> InitHook]

\* ------------------------------------------------------- catalog store
\* db.transfer.update({ where: { id }, data: { status } })
TransferUpdate(t, status) == [transferStatus EXCEPT ![t] = status]

\* db.transferResult.upsert: create with finalizedAt and objectUrl, or update
\* finalizedAt and objectUrl; an undefined objectUrl leaves the stored one alone
ResultUpsert(t, objectUrl) ==
  [transferResult EXCEPT ![t] =
     IF @.exists
       THEN [exists |-> TRUE, finalizedAt |-> TRUE,
             objectUrl |-> IF objectUrl = Undefined THEN @.objectUrl ELSE objectUrl]
       ELSE [exists |-> TRUE, finalizedAt |-> TRUE, objectUrl |-> objectUrl]]

\* db.share.update({ data: { lastModifiedAt: newLastModifiedAt } })
ShareUpdateValue(q) == q.newLastModifiedAt

\* the watermark query: order by lastModified desc limit 1
LastModifiedRows(rows) == IF rows = {} THEN {} ELSE {SetMax(rows)}

\* the extraction query: where lastModified > share.lastModifiedAt (as loaded)
ExtractionRows(rows, q) == {r \in rows : r > q.transfer.lastModifiedAt}

\* ------------------------------------------------------ processTransfer
Set(p, q) == proc' = [proc EXCEPT ![p] = q]

\* a variant of the catch block that forgets the rollback
CatchTargetNoRollback(q) == "failedUpdate"

\* an error thrown inside the try block: the catch block runs, and rolls back
\* first when a loader has been constructed
CatchTarget(q) == IF q.loader THEN "rollbackTransaction" ELSE "failedUpdate"
Catch(q) == [q EXCEPT !.caught = TRUE, !.pc = CatchTarget(q)]

\* the invocation is over: its promise resolved or rejected
Settle(q, outcome, status) ==
  [q EXCEPT !.pc = "done", !.outcome = outcome, !.endStatus = status,
            !.rejectedAt = IF outcome = "rejected" THEN q.pc ELSE "none"]

\* the check of the loaded transfer's status
IsClaimable(status) == status = "STARTED"

\* a variant that goes to the source without the PENDING write
ClaimStepSkipped == "sourceConnection"

\* what follows the checks of the loaded transfer: the PENDING write
ClaimStep == "updatePending"

\* findUnique, then the not-found and already-processed checks
LoadTransfer(p, id) ==
  LET q == [proc[p] EXCEPT !.id = id,
                           !.startedAlone =
                              \A o \in Procs \ {p} :
                                 proc[o].pc \in {"idle", "done"}] IN
  /\ proc[p].pc = "idle"
  /\ \A o \in Procs : o < p => proc[o].pc # "idle"  \* numbered as they start
  /\ id = MissingId \/ transferStatus[id] # NONE   \* enqueued for a created transfer
  /\ \/ Set(p, Catch(q))                       \* findUnique throws
     \/ LET found == transferStatus[id] # NONE
            t == [found |-> found, status |-> transferStatus[id],
                  lastModifiedAt |-> IF found THEN shareLastModifiedAt ELSE 0]
            r == [q EXCEPT !.transfer = t]
        IN IF found /\ IsClaimable(t.status)
             THEN Set(p, [r EXCEPT !.pc = ClaimStep])
             ELSE Set(p, Catch(r))
  /\ UNCHANGED <<dbVars, cfgVars, sourceRows, logs, del, hook>>

\* the STARTED -> PENDING write, then the configuration check
UpdatePending(p) ==
  LET q == proc[p] IN
  /\ q.pc = "updatePending"
  /\ \/ /\ transferStatus[q.id] # NONE
        /\ transferStatus' = TransferUpdate(q.id, "PENDING")
        /\ \E configuration \in BOOLEAN :
             LET r == [q EXCEPT !.claimed = TRUE] IN
             IF configuration
               THEN Set(p, [r EXCEPT !.pc = "sourceConnection"])
               ELSE Set(p, Catch(r))
     \/ /\ Set(p, Catch(q))                    \* the update throws
        /\ UNCHANGED transferStatus
  /\ UNCHANGED <<transferResult, shareLastModifiedAt, destinationExists,
                 cfgVars, sourceRows, logs, del, hook>>

\* useConnection to the source, then the lastModified and tenant column checks
SourceConnection(p) ==
  LET q == [proc[p] EXCEPT !.sourceContacted = TRUE] IN
  /\ proc[p].pc = "sourceConnection"
  /\ \/ Set(p, [q EXCEPT !.pc = "lastModifiedQuery"])
     \/ Set(p, Catch(q))                       \* unreachable, or a column is missing
  /\ UNCHANGED <<dbVars, cfgVars, sourceRows, logs, del, hook>>

\* a variant of the zero-rows test that never takes the early return
ZeroRowsNever(rows) == FALSE

\* if (!rows[0])
ZeroRows(rows) == rows = {}

\* the watermark query, the zero-rows branch and the parse of its value
LastModifiedQuery(p) ==
  LET q == proc[p]
      rows == LastModifiedRows(sourceRows)
      r == [q EXCEPT !.noNewRows = ExtractionRows(sourceRows, q) = {},
                     !.zeroRows = rows = {}]
  IN
  /\ q.pc = "lastModifiedQuery"
  /\ \/ IF ZeroRows(rows)
          THEN Set(p, [r EXCEPT !.pc = "cancelUpdate"])
          ELSE Set(p, [r EXCEPT !.newLastModifiedAt = SetMax(rows),
                                !.pc = "queryStream"])
     \/ Set(p, Catch(q))                       \* the query or the parse throws
  /\ UNCHANGED <<dbVars, cfgVars, sourceRows, logs, del, hook>>

\* return db.transfer.update(... CANCELLED): the promise is returned, not
\* awaited, so its rejection is not caught by the try block
CancelUpdate(p) ==
  LET q == proc[p] IN
  /\ q.pc = "cancelUpdate"
  /\ \/ /\ transferStatus[q.id] # NONE
        /\ transferStatus' = TransferUpdate(q.id, "CANCELLED")
        /\ Set(p, Settle(q, "resolved", "CANCELLED"))
     \/ /\ UNCHANGED transferStatus
        /\ Set(p, Settle(q, "rejected", transferStatus[q.id]))
  /\ UNCHANGED <<transferResult, shareLastModifiedAt, destinationExists,
                 cfgVars, sourceRows, logs, del, hook>>

\* where the switch on destinationType goes after the extraction query
SwitchTarget(q) ==
  CASE destinationType = "PROVISIONED_S3" -> "uploadObject"
    [] destinationType \in WarehouseTypes ->
         IF credentialsExist THEN "destConnection" ELSE "throw"

\* the extraction query, then the head of the destination switch
QueryStream(p) ==
  LET q == proc[p]
      r == [q EXCEPT !.stream = ExtractionRows(sourceRows, q)]
  IN
  /\ q.pc = "queryStream"
  /\ \/ IF SwitchTarget(r) = "throw"
          THEN Set(p, Catch([r EXCEPT !.credentialsMissing = TRUE]))
          ELSE Set(p, [r EXCEPT !.pc = SwitchTarget(r)])
     \/ Set(p, Catch(q))                       \* queryStream throws
  /\ UNCHANGED <<dbVars, cfgVars, sourceRows, logs, del, hook>>

\* PROVISIONED_S3: uploadObject
UploadObject(p) ==
  LET q == [proc[p] EXCEPT !.destinationContacted = TRUE] IN
  /\ proc[p].pc = "uploadObject"
  /\ \/ Set(p, [q EXCEPT !.key = uploadObject(p), !.pc = "getPresignedURL"])
     \/ Set(p, Catch(q))
  /\ UNCHANGED <<dbVars, cfgVars, sourceRows, logs, del, hook>>

\* PROVISIONED_S3: getPresignedURL
GetPresignedURL(p) ==
  LET q == proc[p] IN
  /\ q.pc = "getPresignedURL"
  /\ \/ Set(p, [q EXCEPT !.objectUrl = getPresignedURL(q.key),
                         !.pc = "completeUpdate"])
     \/ Set(p, Catch(q))
  /\ UNCHANGED <<dbVars, cfgVars, sourceRows, logs, del, hook>>

\* SNOWFLAKE / REDSHIFT: useConnection to the destination, then new Loader
DestConnection(p) ==
  LET q == [proc[p] EXCEPT !.destinationContacted = TRUE] IN
  /\ proc[p].pc = "destConnection"
  /\ \/ Set(p, [q EXCEPT !.loader = TRUE, !.pc = "beginTransaction"])
     \/ Set(p, Catch(q))                       \* unreachable
  /\ UNCHANGED <<dbVars, cfgVars, sourceRows, logs, del, hook>>

\* a variant that stages before the table exists
LoaderStepsSwapped == <<"beginTransaction", "stage", "createTable", "upsert",
                        "tearDown", "commitTransaction">>

\* the awaited loader calls, in program order
LoaderSteps == <<"beginTransaction", "createTable", "stage", "upsert",
                 "tearDown", "commitTransaction">>
LoaderStepSet == {LoaderSteps[i] : i \in 1..Len(LoaderSteps)}
StepIndex(s) == CHOOSE i \in 1..Len(LoaderSteps) : LoaderSteps[i] = s

\* what follows a loader step that returned
AfterLoaderStep(s) ==
  IF StepIndex(s) < Len(LoaderSteps) THEN LoaderSteps[StepIndex(s) + 1]
                                     ELSE "completeUpdate"

\* SNOWFLAKE / REDSHIFT: one awaited loader call
LoaderStep(p) ==
  LET q == [proc[p] EXCEPT !.destinationContacted = TRUE,
                           !.loaderCalls = Append(@, proc[p].pc)] IN
  /\ proc[p].pc \in LoaderStepSet
  /\ \/ Set(p, [q EXCEPT !.pc = AfterLoaderStep(q.pc),
                         !.loaderReturned = @ + 1])
     \/ Set(p, Catch(q))
  /\ UNCHANGED <<dbVars, cfgVars, sourceRows, logs, del, hook>>

\* finalizeTransfer({ status: "COMPLETE", objectUrl }): db.transfer.update
CompleteUpdate(p) ==
  LET q == proc[p] IN
  /\ q.pc = "completeUpdate"
  /\ \/ /\ transferStatus[q.id] # NONE
        /\ transferStatus' = TransferUpdate(q.id, "COMPLETE")
        /\ Set(p, [q EXCEPT !.pc = "completeUpsert"])
     \/ /\ UNCHANGED transferStatus
        /\ Set(p, Catch(q))
  /\ UNCHANGED <<transferResult, shareLastModifiedAt, destinationExists,
                 cfgVars, sourceRows, logs, del, hook>>

\* finalizeTransfer({ status: "COMPLETE", objectUrl }): db.transferResult.upsert
CompleteUpsert(p) ==
  LET q == proc[p] IN
  /\ q.pc = "completeUpsert"
  /\ \/ /\ transferStatus[q.id] # NONE
        /\ transferResult' = ResultUpsert(q.id, q.objectUrl)
        /\ Set(p, [q EXCEPT !.wroteResult = TRUE, !.pc = "shareUpdate"])
     \/ /\ UNCHANGED transferResult
        /\ Set(p, Catch(q))
  /\ UNCHANGED <<transferStatus, shareLastModifiedAt, destinationExists,
                 cfgVars, sourceRows, logs, del, hook>>

\* db.share.update after the switch: the watermark write
ShareUpdate(p) ==
  LET q == proc[p] IN
  /\ q.pc = "shareUpdate"
  /\ \/ /\ destinationExists
        /\ shareLastModifiedAt' = ShareUpdateValue(q)
        /\ Set(p, Settle([q EXCEPT !.wroteShare = TRUE], "resolved",
                         transferStatus[q.id]))
     \/ /\ UNCHANGED shareLastModifiedAt
        /\ Set(p, Catch(q))
  /\ UNCHANGED <<transferStatus, transferResult, destinationExists,
                 cfgVars, sourceRows, logs, del, hook>>

\* catch: await loader?.rollbackTransaction()
RollbackTransaction(p) ==
  LET q == [proc[p] EXCEPT !.rollbackCalls = @ + 1,
                           !.destinationContacted = TRUE,
                           !.loaderCalls = Append(@, "rollbackTransaction")] IN
  /\ proc[p].pc = "rollbackTransaction"
  /\ \/ Set(p, [q EXCEPT !.pc = "failedUpdate"])
     \/ Set(p, Settle(q, "rejected", transferStatus[q.id]))
  /\ UNCHANGED <<dbVars, cfgVars, sourceRows, logs, del, hook>>

\* catch: finalizeTransfer({ status: "FAILED" }): db.transfer.update
FailedUpdate(p) ==
  LET q == proc[p] IN
  /\ q.pc = "failedUpdate"
  /\ \/ /\ transferStatus[q.id] # NONE
        /\ transferStatus' = TransferUpdate(q.id, "FAILED")
        /\ Set(p, [q EXCEPT !.pc = "failedUpsert"])
     \/ /\ UNCHANGED transferStatus
        /\ Set(p, Settle(q, "rejected", transferStatus[q.id]))
  /\ UNCHANGED <<transferResult, shareLastModifiedAt, destinationExists,
                 cfgVars, sourceRows, logs, del, hook>>

\* catch: finalizeTransfer({ status: "FAILED" }): db.transferResult.upsert
FailedUpsert(p) ==
  LET q == proc[p] IN
  /\ q.pc = "failedUpsert"
  /\ \/ /\ transferStatus[q.id] # NONE
        /\ transferResult' = ResultUpsert(q.id, Undefined)
        /\ Set(p, Settle([q EXCEPT !.wroteResult = TRUE], "resolved",
                         transferStatus[q.id]))
     \/ /\ UNCHANGED transferResult
        /\ Set(p, Settle(q, "rejected", transferStatus[q.id]))
  /\ UNCHANGED <<transferStatus, shareLastModifiedAt, destinationExists,
                 cfgVars, sourceRows, logs, del, hook>>

ProcessTransfer(p) ==
  \/ \E id \in Ids : LoadTransfer(p, id)
  \/ UpdatePending(p)
  \/ SourceConnection(p)
  \/ LastModifiedQuery(p)
  \/ CancelUpdate(p)
  \/ QueryStream(p)
  \/ UploadObject(p)
  \/ GetPresignedURL(p)
  \/ DestConnection(p)
  \/ LoaderStep(p)
  \/ CompleteUpdate(p)
  \/ CompleteUpsert(p)
  \/ ShareUpdate(p)
  \/ RollbackTransaction(p)
  \/ FailedUpdate(p)
  \/ FailedUpsert(p)

\* ---------------------------------------------------------- environment
\* a transfer is created in STARTED status for the share of an existing destination
CreateTransfer(t) ==
  /\ destinationExists
  /\ transferStatus[t] = NONE
  /\ \A u \in TransferIds : u < t => transferStatus[u] # NONE
  /\ transferStatus' = TransferUpdate(t, "STARTED")
  /\ UNCHANGED <<transferResult, shareLastModifiedAt, destinationExists,
                 cfgVars, sourceRows, logs, proc, del, hook>>

\* the source gains a row for the tenant
InsertRow(r) ==
  /\ r \notin sourceRows
  /\ sourceRows' = sourceRows \cup {r}
  /\ UNCHANGED <<dbVars, cfgVars, logs, proc, del, hook>>

\* ------------------------------------------------- destinationRouter.delete
\* a variant of the filter with `some` in place of `every`
SomeTransferNotPending ==
  \E t \in TransferIds : transferStatus[t] # NONE
                         /\ transferStatus[t] \notin pendingTransferTypes

\* where: { transfers: { every: { status: { notIn: pendingTransferTypes } } } }
NoPendingTransfers ==
  \A t \in TransferIds : transferStatus[t] = NONE
                         \/ transferStatus[t] \notin pendingTransferTypes

\* db.destination.findUnique and the 404 answer
DeleteFindUnique(d) ==
  /\ del[d].pc = "idle"
  /\ \A o \in DeleteReqs : o < d => del[o].pc # "idle"  \* numbered as they arrive
  /\ IF destinationExists
       THEN del' = [del EXCEPT ![d].pc = "transaction"]
       ELSE del' = [del EXCEPT ![d] = [pc |-> "done", response |-> 404]]
  /\ UNCHANGED <<dbVars, cfgVars, sourceRows, logs, proc, hook>>

\* db.$transaction: findFirst with no pending transfers, then log and null, or
\* delete and log.  Share.destination and Transfer.share are required relations
\* (processTransfer reads them without a null check), so a delete that succeeds
\* takes the share, its transfers and their results with it.
DeleteTransaction(d) ==
  /\ del[d].pc = "transaction"
  /\ IF destinationExists /\ NoPendingTransfers
       THEN /\ destinationExists' = FALSE
            /\ transferStatus' = [t \in Ids |-> NONE]
            /\ transferResult' = [t \in Ids |-> NoResult]
            /\ logs' = [logs EXCEPT !.deleted = @ + 1]
            /\ del' = [del EXCEPT ![d] = [pc |-> "done", response |-> 204]]
       ELSE /\ logs' = [logs EXCEPT !.pending = @ + 1]
            /\ del' = [del EXCEPT ![d] = [pc |-> "done", response |-> 412]]
            /\ UNCHANGED <<transferStatus, transferResult, destinationExists>>
  /\ UNCHANGED <<shareLastModifiedAt, cfgVars, sourceRows, proc, hook>>

\* ------------------------------------------------------------ processWebhook
\* a variant that posts again after a failed delivery
WebhookRetry == "post"

\* where a rejected got.post leaves the invocation: the catch block logs the
\* error and the function returns
WebhookAfterError == "done"

\* the catch block: logger.error, then the function returns normally
WebhookCatch(h) ==
  [h EXCEPT !.pc = "done", !.logged = @ + 1, !.outcome = "resolved"]

\* db.transfer.findUnique with the result selected, and the not-found throw
WebhookFindUnique(w, id) ==
  LET h == [hook[w] EXCEPT !.id = id] IN
  /\ hook[w].pc = "idle"
  /\ \A o \in Hooks : o < w => hook[o].pc # "idle"     \* numbered as they start
  /\ \/ IF transferStatus[id] = NONE
          THEN hook' = [hook EXCEPT ![w] = WebhookCatch(h)]
          ELSE hook' = [hook EXCEPT ![w] =
                         [h EXCEPT !.pc = "post",
                                   !.body = [status |-> transferStatus[id],
                                             result |-> transferResult[id]]]]
     \/ hook' = [hook EXCEPT ![w] = WebhookCatch(h)]     \* the query throws
  /\ UNCHANGED <<dbVars, cfgVars, sourceRows, logs, proc, del>>

\* got.post of the signed body to webhook.url
WebhookPost(w) ==
  LET h == [hook[w] EXCEPT !.posts = @ + 1] IN
  /\ hook[w].pc = "post"
  /\ hook[w].posts < MaxPosts
  /\ \/ hook' = [hook EXCEPT ![w] = [h EXCEPT !.pc = "done", !.delivered = TRUE,
                                              !.outcome = "resolved"]]
     \/ hook' = [hook EXCEPT ![w] =
                   IF WebhookAfterError = "done"
                     THEN WebhookCatch(h)
                     ELSE [h EXCEPT !.pc = WebhookAfterError, !.logged = @ + 1]]
  /\ UNCHANGED <<dbVars, cfgVars, sourceRows, logs, proc, del>>

\* transfer processing: invocations, transfer creation and source inserts
Next ==
  \/ \E p \in Procs : ProcessTransfer(p)
  \/ \E t \in TransferIds : CreateTransfer(t)
  \/ \E r \in RowTimes : InsertRow(r)

Spec == Init /\ [][Next]_vars

\* the delete endpoint racing transfer creation and processing, over a source
\* that does not change meanwhile
InitDelete ==
  /\ transferStatus = [t \in Ids |-> NONE]
  /\ transferResult = [t \in Ids |-> NoResult]
  /\ shareLastModifiedAt = 0
  /\ destinationExists = TRUE
  /\ destinationType \in DestinationTypes
  /\ credentialsExist = (destinationType \in WarehouseTypes)
  /\ sourceRows \in {{}, {1}}
  /\ logs = [pending |-> 0, deleted |-> 0]
  /\ proc = [p \in Procs |-> InitProc]
  /\ del = [d \in DeleteReqs |-> [pc |-> "idle", response |-> 0]]
  /\ hook = [w \in Hooks |-> InitHook]

NextDelete ==
  \/ \E p \in Procs : ProcessTransfer(p)
  \/ \E t \in TransferIds : CreateTransfer(t)
  \/ \E d \in DeleteReqs : DeleteFindUnique(d)
  \/ \E d \in DeleteReqs : DeleteTransaction(d)

SpecDelete == InitDelete /\ [][NextDelete]_vars

\* webhook deliveries beside transfer creation and processing
NextWebhook ==
  \/ \E p \in Procs : ProcessTransfer(p)
  \/ \E t \in TransferIds : CreateTransfer(t)
  \/ \E w \in Hooks, id \in Ids : WebhookFindUnique(w, id)
  \/ \E w \in Hooks : WebhookPost(w)

SpecWebhook == InitDelete /\ [][NextWebhook]_vars

\* ================================================================ claims
Done(p) == proc[p].pc = "done"

\* C1: of two invocations on the same transfer id that both found it STARTED,
\* at most one gets past the STARTED -> PENDING claim and contacts the source.
C1_ProcessedAtMostOnce ==
  \A p, o \in Procs :
    (p # o /\ proc[p].id = proc[o].id /\ proc[p].id \in TransferIds)
      => ~(proc[p].claimed /\ proc[p].sourceContacted
           /\ proc[o].claimed /\ proc[o].sourceContacted)

AllowedTransitions ==
  {<<"STARTED", "PENDING">>} \cup ({"PENDING"} \X TerminalStatus)

\* C2: a transfer's status only changes along STARTED -> PENDING and
\* PENDING -> {COMPLETE, FAILED, CANCELLED}; a terminal status is never replaced.
C2_StatusStateMachine ==
  [][\A t \in TransferIds :
       (transferStatus[t] # NONE /\ transferStatus'[t] # NONE
        /\ transferStatus'[t] # transferStatus[t])
         => <<transferStatus[t], transferStatus'[t]>> \in AllowedTransitions]_vars

\* C3: an invocation that finds its transfer in a status other than STARTED
\* writes neither Share nor TransferResult (the model never writes Destination).
C3_RejectedWritesNothing ==
  \A p \in Procs :
    (proc[p].transfer.found /\ proc[p].transfer.status # "STARTED")
      => (~proc[p].wroteResult /\ ~proc[p].wroteShare)

\* C4: an invocation that claimed its transfer has written Share.lastModifiedAt
\* if and only if the transfer's status is COMPLETE when the invocation ends.
C4_WatermarkIffComplete ==
  \A p \in Procs :
    (Done(p) /\ proc[p].claimed)
      => (proc[p].wroteShare <=> proc[p].endStatus = "COMPLETE")

\* C5: every write to Share.lastModifiedAt stores a value greater than or equal
\* to the value it replaces.
C5_WatermarkMonotonic ==
  [][shareLastModifiedAt' >= shareLastModifiedAt]_vars

\* C6 (as stated): when an invocation is over, rollbackTransaction has been
\* invoked if and only if a loader was constructed in it.
C6_RollbackIffLoader ==
  \A p \in Procs :
    Done(p) => (proc[p].rollbackCalls > 0 <=> proc[p].loader)

\* C6 (amended): rollbackTransaction is invoked, once, exactly by the invocations
\* that enter their catch block with a loader constructed; an invocation that
\* finishes without an error never invokes it; a loader is constructed only for
\* a warehouse destination whose credentials are complete and whose connection
\* was attempted.
C6_RollbackIffLoaderOnFailure ==
  \A p \in Procs :
    /\ proc[p].rollbackCalls =
         IF proc[p].caught /\ proc[p].loader /\ proc[p].pc # "rollbackTransaction"
           THEN 1 ELSE 0
    /\ proc[p].loader => /\ destinationType \in WarehouseTypes
                         /\ credentialsExist
                         /\ proc[p].destinationContacted

C6_Witness ==
  \E p \in Procs : Done(p) /\ proc[p].loader /\ proc[p].rollbackCalls = 1

C8_ExtractionAboveCurrentWatermark ==
  [][\A p \in Procs :
       proc'[p].stream # proc[p].stream
         => \A r \in proc'[p].stream : r > shareLastModifiedAt]_vars

\* C9: when the watermark query of a claimed transfer runs and the source holds
\* no row above share.lastModifiedAt, no loader is constructed, the watermark is
\* not written, and the invocation, if it returns without an error, leaves the
\* transfer CANCELLED.
C9_ZeroNewRowsCancels ==
  \A p \in Procs :
    proc[p].noNewRows
      => /\ ~proc[p].loader
         /\ ~proc[p].wroteShare
         /\ (Done(p) /\ ~proc[p].caught /\ proc[p].outcome = "resolved")
              => proc[p].endStatus = "CANCELLED"

\* C10: when the watermark query returns zero rows, the invocation goes to the
\* CANCELLED write with no error handling, performs no destination operation
\* (upload, connection, loader call, rollback), does not write the watermark,
\* and once that write is done the transfer is CANCELLED.
C10_ZeroRowsCancelled ==
  \A p \in Procs :
    proc[p].zeroRows
      => /\ proc[p].pc \in {"cancelUpdate", "done"}
         /\ ~proc[p].caught
         /\ ~proc[p].destinationContacted
         /\ ~proc[p].loader
         /\ proc[p].rollbackCalls = 0
         /\ ~proc[p].wroteShare
         /\ (Done(p) /\ proc[p].outcome = "resolved")
              => proc[p].endStatus = "CANCELLED"

C10_Witness ==
  \E p \in Procs :
    /\ proc[p].zeroRows /\ Done(p) /\ proc[p].outcome = "resolved"
    /\ proc[p].transfer.status = "STARTED"
    /\ transferStatus[proc[p].id] = "CANCELLED"

IsLoaderStep(s) == s \in LoaderStepSet

\* the loader steps an invocation has invoked, in the order of the calls
LoaderStepCalls(p) == SelectSeq(proc[p].loaderCalls, IsLoaderStep)

\* a loader step invoked after beginTransaction had returned has thrown
LoadStepThrew(p) ==
  /\ Len(LoaderStepCalls(p)) >= 2
  /\ proc[p].loaderReturned < Len(LoaderStepCalls(p))

\* C11: an invocation for a warehouse destination in which a loader step
\* after a successful beginTransaction threw has called rollbackTransaction
\* exactly once when it is over, and leaves the transfer FAILED with a
\* TransferResult that has no objectUrl.
C11_LoadFailureRollsBackAndFails ==
  \A p \in Procs :
    (Done(p) /\ LoadStepThrew(p))
      => /\ proc[p].rollbackCalls = 1
         /\ proc[p].endStatus = "FAILED"
         /\ transferResult[proc[p].id].exists
         /\ transferResult[proc[p].id].objectUrl = Undefined

\* C12: for a warehouse destination whose credentials are incomplete no
\* invocation attempts a destination connection, constructs a loader or calls
\* rollbackTransaction, and an invocation that got to the credentials check
\* and whose finalization writes returned leaves the transfer FAILED.
C12_MissingCredentialsFail ==
  (destinationType \in WarehouseTypes /\ ~credentialsExist)
    => \A p \in Procs :
         /\ ~proc[p].destinationContacted
         /\ ~proc[p].loader
         /\ proc[p].rollbackCalls = 0
         /\ (Done(p) /\ proc[p].credentialsMissing
               /\ proc[p].outcome = "resolved")
              => proc[p].endStatus = "FAILED"

\* the step in which invocation p returns
Returns(p) == proc[p].pc # "done" /\ proc'[p].pc = "done"

\* C13: when an invocation for a PROVISIONED_S3 destination that found new
\* rows returns after its upload, its signing and its persistence writes
\* succeeded, the transfer is COMPLETE, TransferResult.objectUrl is the signed
\* URL of the key it uploaded, and Share.lastModifiedAt is the maximum its
\* watermark query returned.
C13_ObjectStoreSuccess ==
  [][\A p \in Procs :
       (/\ Returns(p)
        /\ destinationType = "PROVISIONED_S3"
        /\ proc'[p].wroteShare /\ ~proc'[p].caught
        /\ proc'[p].outcome = "resolved")
         => /\ transferStatus'[proc[p].id] = "COMPLETE"
            /\ transferResult'[proc[p].id].objectUrl
                 = getPresignedURL(uploadObject(p))
            /\ shareLastModifiedAt' = proc[p].newLastModifiedAt]_vars

\* C14: a delete request whose transaction runs while some transfer of the
\* destination is STARTED or PENDING is answered 412 (precondition failed),
\* persists one audit log entry, and leaves the destination row in place.
C14_DeleteRejectedWhilePending ==
  [][\A d \in DeleteReqs :
       (/\ del[d].pc = "transaction" /\ del'[d].pc = "done"
        /\ \E t \in TransferIds : transferStatus[t] \in {"STARTED", "PENDING"})
         => /\ del'[d].response = 412
            /\ logs'.pending = logs.pending + 1
            /\ destinationExists /\ destinationExists'
            /\ transferStatus' = transferStatus]_vars

\* a request was rejected while an invocation held a transfer in PENDING
C14_Witness ==
  /\ destinationExists
  /\ logs.pending >= 1
  /\ \E d \in DeleteReqs : del[d].response = 412
  /\ \E p \in Procs : /\ proc[p].claimed /\ ~Done(p)
                      /\ transferStatus[proc[p].id] = "PENDING"

\* C15: a step of processWebhook leaves Transfer, TransferResult and Share as
\* they are; an invocation issues at most one POST; and whatever the lookup
\* or the POST does, the step after it is the normal return of the invocation.
C15_WebhookSwallowsAndWritesNothing ==
  [][\A w \in Hooks :
       hook'[w] # hook[w]
         => /\ dbVars' = dbVars
            /\ hook'[w].posts <= 1
            /\ \/ hook'[w].pc = "done" /\ hook'[w].outcome = "resolved"
               \/ hook[w].pc = "idle" /\ hook'[w].pc = "post"]_vars

\* a delivery failed with a network error while an invocation was processing
\* the transfer the webhook is about
C15_Witness ==
  \E w \in Hooks :
    /\ hook[w].pc = "done" /\ hook[w].posts = 1 /\ ~hook[w].delivered
    /\ hook[w].logged = 1
    /\ \E p \in Procs : proc[p].id = hook[w].id /\ proc[p].claimed

\* the steps of processTransfer that talk to the source or to the destination
ExternalIO ==
  {"sourceConnection", "lastModifiedQuery", "queryStream", "uploadObject",
   "getPresignedURL", "destConnection", "beginTransaction", "createTable",
   "stage", "upsert", "tearDown", "commitTransaction", "rollbackTransaction"}

\* C16: every step of an invocation that talks to the source or to the
\* destination is taken after that invocation wrote PENDING, at a moment when
\* the transfer's status is not STARTED.
C16_PendingBeforeExternalIO ==
  [][\A p \in Procs :
       (proc[p].pc \in ExternalIO /\ proc'[p] # proc[p])
         => /\ proc[p].transfer.status = "STARTED"
            /\ proc[p].claimed
            /\ transferStatus[proc[p].id] # "STARTED"]_vars

\* an invocation found its transfer STARTED and went as far as the loader
C16_Witness ==
  \E p \in Procs :
    /\ proc[p].transfer.status = "STARTED" /\ proc[p].claimed
    /\ proc[p].sourceContacted /\ proc[p].destinationContacted
    /\ Len(proc[p].loaderCalls) >= 1

\* C17: whenever an invocation that claimed its transfer returns from its
\* catch block, the writes of finalizeTransfer done, with the transfer FAILED,
\* the transfer's TransferResult row exists, has finalizedAt set and has no
\* objectUrl.
C17_FailedResultHasNoObjectUrl ==
  [][\A p \in Procs :
       (/\ Returns(p) /\ proc'[p].claimed /\ proc'[p].caught
        /\ proc'[p].outcome = "resolved"
        /\ transferStatus'[proc'[p].id] = "FAILED")
         => /\ transferResult'[proc'[p].id].exists
            /\ transferResult'[proc'[p].id].finalizedAt
            /\ transferResult'[proc'[p].id].objectUrl = Undefined]_vars

\* the steps that write the transfer's final status or its TransferResult
FinalWrites == {"cancelUpdate", "failedUpdate", "failedUpsert"}

\* C18: an invocation that claimed its transfer, that is the only one working
\* on that transfer id, and whose final catalog writes did not fail, leaves the
\* transfer in a terminal status when it returns (the claim asks for this
\* whatever step fails, the rollback included).
C18_ClaimedEndsTerminal ==
  \A p \in Procs :
    (/\ Done(p) /\ proc[p].claimed
     /\ proc[p].rejectedAt \notin FinalWrites
     /\ \A o \in Procs : o # p => proc[o].id # proc[p].id)
      => proc[p].endStatus \in TerminalStatus

\* the order the claim gives for the loader steps
C19_Order == <<"beginTransaction", "createTable", "stage", "upsert",
               "tearDown", "commitTransaction">>

\* C19: the loader steps an invocation has invoked are the first steps of
\* begin, createTable, stage, upsert, tearDown, commit, in that order and
\* without repetition; all but possibly the last invoked one have returned;
\* and the write of COMPLETE for a warehouse destination is made only when
\* all six, commitTransaction included, have returned.
C19_LoaderStepsInOrder ==
  \A p \in Procs :
    LET calls == LoaderStepCalls(p) IN
    /\ Len(calls) <= Len(C19_Order)
    /\ calls = SubSeq(C19_Order, 1, Len(calls))
    /\ proc[p].loaderReturned \in {Len(calls), Len(calls) - 1}
    /\ proc[p].loaderReturned < Len(calls) => proc[p].caught
    /\ proc[p].pc \in LoaderStepSet
         => /\ proc[p].pc = C19_Order[Len(calls) + 1]
            /\ proc[p].loaderReturned = Len(calls)
    /\ (destinationType \in WarehouseTypes
        /\ proc[p].pc \in {"completeUpdate", "completeUpsert", "shareUpdate"})
         => proc[p].loaderReturned = Len(C19_Order)

\* an invocation went through the six steps and the transfer became COMPLETE
C19_Witness ==
  \E p \in Procs :
    /\ LoaderStepCalls(p) = C19_Order
    /\ proc[p].loaderReturned = 6
    /\ Done(p) /\ proc[p].endStatus = "COMPLETE"

\* C20: an invocation whose commitTransaction has returned never invokes
\* rollbackTransaction, whatever fails after the commit.
C20_NoRollbackAfterCommit ==
  \A p \in Procs :
    proc[p].loaderReturned = Len(LoaderSteps) => proc[p].rollbackCalls = 0

\* C21: when an invocation returns without an error and leaves its transfer
\* in a terminal status, the transfer has a TransferResult row with
\* finalizedAt set.
C21_TerminalHasResult ==
  [][\A p \in Procs :
       (/\ Returns(p) /\ proc'[p].outcome = "resolved"
        /\ transferStatus'[proc'[p].id] \in TerminalStatus)
         => /\ transferResult'[proc'[p].id].exists
            /\ transferResult'[proc'[p].id].finalizedAt]_vars

\* C22: of two invocations for different transfers of the share that ran one
\* after the other (neither started while the other was running), that both
\* returned without an error and whose transfers are both COMPLETE, the
\* extracted streams have no source row in common.
C22_RowExtractedOnce ==
  \A p, o \in Procs :
    (/\ p # o /\ Done(p) /\ Done(o)
     /\ proc[p].startedAlone /\ proc[o].startedAlone
     /\ proc[p].id # proc[o].id
     /\ proc[p].outcome = "resolved" /\ proc[o].outcome = "resolved"
     /\ ~proc[p].caught /\ ~proc[o].caught
     /\ transferStatus[proc[p].id] = "COMPLETE"
     /\ transferStatus[proc[o].id] = "COMPLETE")
      => proc[p].stream \cap proc[o].stream = {}

\* C23: whatever the id, an invocation that is over has resolved: the promise
\* processTransfer returned is never rejected.
C23_NeverRejects ==
  \A p \in Procs : Done(p) => proc[p].outcome = "resolved"

\* C24: the delete endpoint answers 412 and writes the 'transfer is pending'
\* log entry only in a step in which the destination exists and one of its
\* transfers is STARTED or PENDING.
C24_PreconditionFailedOnlyWhenPending ==
  [][\A d \in DeleteReqs :
       (\/ del[d].response # 412 /\ del'[d].response = 412
        \/ del'[d] # del[d] /\ logs'.pending # logs.pending)
         => /\ destinationExists
            /\ \E t \in TransferIds :
                 transferStatus[t] \in {"STARTED", "PENDING"}]_vars

====
